---- MODULE Spec2Model ----
(***************************************************************************)
(* A model of rpc4django/rpcdispatcher.py: the rpcmethod decorator, the    *)
(* RPCMethod descriptor and the RPCDispatcher registry with its            *)
(* introspection procedures.                                               *)
(*                                                                         *)
(* Python values:  an optional value is a sequence of length 0 (None, or   *)
(* an attribute / keyword that is absent) or 1 (the value).  A list is a   *)
(* sequence, a str a string, a dict a function.                            *)
(***************************************************************************)
EXTENDS Integers, Sequences, FiniteSets, TLC

VARIABLES
    phase,        \* "new": RPCDispatcher.__init__ has not run; "ready": it has
    restrict,     \* the restrict_introspection argument __init__ was given
    rpcmethods,   \* RPCDispatcher.rpcmethods: a list of RPCMethod
    xmlfuncs,     \* the function table of RPCDispatcher.xmlrpcdispatcher
    jsonfuncs,    \* the function table of RPCDispatcher.jsonrpcdispatcher
    fn,           \* the callable a module is defining (descriptor specification)
    op,           \* the last call made: its name and its arguments
    ret           \* what that call returned or raised

vars == <<phase, restrict, rpcmethods, xmlfuncs, jsonfuncs, fn, op, ret>>

---------------------------------------------------------------------------
(* Bounds of the model. *)

\* the longest signature list a caller writes
MaxSigLen == 3
\* the most entries of rpcmethods that are not built-in introspection methods
MaxUser == 2
\* the most decorated callables the scanned apps hold
MaxApps == 2

---------------------------------------------------------------------------
(* Python values. *)

None == <<>>
Some(v) == <<v>>
IsNone(o) == Len(o) = 0
Val(o) == o[1]

Range(s) == {s[i] : i \in 1..Len(s)}

\* all lists over S of length n, and of length at most n
RECURSIVE ListsOfLen(_, _)
ListsOfLen(S, n) ==
    IF n = 0 THEN {<<>>}
    ELSE {Append(l, x) : l \in ListsOfLen(S, n - 1), x \in S}

ListsUpTo(S, n) == UNION {ListsOfLen(S, k) : k \in 0..n}

APPLICATION_ERROR == -32500

---------------------------------------------------------------------------
(* Callables.  A callable is what RPCMethod.__init__ and the decorator     *)
(* read of it: its code (body), its func_name, the args of                 *)
(* inspect.getargspec, its docstring as pydoc.getdoc returns it, and the   *)
(* attributes the decorator attaches (absent until it does).               *)

Function(body, func_name, args, doc) ==
    [body |-> body, func_name |-> func_name, args |-> args, doc |-> doc,
     is_rpcmethod |-> None, signature |-> None, permission |-> None,
     external_name |-> None]

\* the keyword arguments of rpcmethod(**kwargs); 'k in kwargs' is ~IsNone(k)
Kwargs(name, signature, permission) ==
    [name |-> name, signature |-> signature, permission |-> permission]

\* rpcmethod(**kwargs)(method): the attributes are reset, then the keywords
\* that were given replace the defaults
set_rpcmethod_info(kwargs, method) ==
    [method EXCEPT
        !.is_rpcmethod = Some(TRUE),
        !.signature = IF ~IsNone(kwargs.signature)
                      THEN Some(Val(kwargs.signature)) ELSE Some(<<>>),
        !.permission = IF ~IsNone(kwargs.permission)
                       THEN Some(Some(Val(kwargs.permission))) ELSE Some(None),
        !.external_name = IF ~IsNone(kwargs.name)
                          THEN Some(Val(kwargs.name)) ELSE Some(method.func_name)]

\* hasattr(method, attr), given the attribute's slot
hasattr(o) == ~IsNone(o)

---------------------------------------------------------------------------
(* RPCMethod. *)

\* [arg for arg in args if arg != 'self']
NotSelf(arg) == arg # "self"
ArgsWithoutSelf(args) == SelectSeq(args, NotSelf)

\* ['object' for arg in self.args] with 'object' inserted at index 0
DefaultSignature(args) == <<"object">> \o [i \in 1..Len(args) |-> "object"]

\* the name: @rpcmethod's external_name, else the passed value, else func_name
ResolveName(method, name) ==
    IF hasattr(method.external_name) THEN Val(method.external_name)
    ELSE IF ~IsNone(name) THEN Val(name)
    ELSE method.func_name

\* the help string
ResolveHelp(method, docstring) ==
    IF ~IsNone(docstring) THEN Val(docstring) ELSE method.doc

\* getattr(method, 'permission', None)
ResolvePermission(method) ==
    IF hasattr(method.permission) THEN Val(method.permission) ELSE None

\* ResolveSignature without the test of the length of @rpcmethod's signature
ResolveSignature_NoLengthCheck(method, args, signature) ==
    IF hasattr(method.signature) THEN Val(method.signature)
    ELSE IF ~IsNone(signature) /\ Len(args) + 1 = Len(Val(signature))
    THEN Val(signature)
    ELSE <<"object">> \o [i \in 1..Len(args) |-> "object"]

\* ResolveSignature with the passed signature tried before @rpcmethod's
ResolveSignature_PassedFirst(method, args, signature) ==
    IF ~IsNone(signature) /\ Len(args) + 1 = Len(Val(signature))
    THEN Val(signature)
    ELSE IF hasattr(method.signature) /\ Len(Val(method.signature)) = Len(args) + 1
    THEN Val(method.signature)
    ELSE <<"object">> \o [i \in 1..Len(args) |-> "object"]

\* the signature: the default, replaced by @rpcmethod's signature if it has
\* the correct number of args, else by the passed one if that has
ResolveSignature(method, args, signature) ==
    IF hasattr(method.signature) /\ Len(Val(method.signature)) = Len(args) + 1
    THEN Val(method.signature)
    ELSE IF ~IsNone(signature) /\ Len(args) + 1 = Len(Val(signature))
    THEN Val(signature)
    ELSE DefaultSignature(args)

\* RPCMethod.__init__(method, name, signature, docstring)
RPCMethod(method, name, signature, docstring) ==
    LET args == ArgsWithoutSelf(method.args) IN
    [method |-> method,
     help |-> ResolveHelp(method, docstring),
     signature |-> ResolveSignature(method, args, signature),
     name |-> ResolveName(method, name),
     permission |-> ResolvePermission(method),
     args |-> args]

---------------------------------------------------------------------------
(* The calls the model records: op is the last call, ret its outcome. *)

NoCall == [call |-> "none", args |-> <<>>]
Call(name, args) == [call |-> name, args |-> args]

NoRet == [kind |-> "none", value |-> <<>>]
Return(v) == [kind |-> "return", value |-> v]
Raise(e) == [kind |-> "raise", value |-> e]

---------------------------------------------------------------------------
(* The inputs of the descriptor specification. *)

SigTags == {"int", "string"}
Signatures == ListsUpTo(SigTags, MaxSigLen)
OptSignatures == {None} \cup {Some(s) : s \in Signatures}

\* the functions a module defines: a two-argument function, a method (its
\* first argument is self) and a function of one argument without docstring
RawFunctions ==
    {Function("b1", "add", <<"a", "b">>, "adds two numbers"),
     Function("b2", "ping", <<"self">>, "answers"),
     Function("b3", "neg", <<"x">>, "")}

ExternalNames == {"add", "myns.mul"}
OptNames == {None} \cup {Some(n) : n \in ExternalNames}
OptPermissions == {None, Some("add_group")}
OptDocstrings == {None, Some("help")}

\* def f(...): a module defines a function; nothing has been called with it
Define(f) ==
    /\ fn' = f
    /\ op' = NoCall
    /\ ret' = NoRet
    /\ UNCHANGED <<phase, restrict, rpcmethods, xmlfuncs, jsonfuncs>>

\* @rpcmethod(**kwargs) on the function just defined
Decorate(kwargs) ==
    /\ op = NoCall
    /\ fn' = set_rpcmethod_info(kwargs, fn)
    /\ UNCHANGED <<phase, restrict, rpcmethods, xmlfuncs, jsonfuncs, op, ret>>

\* RPCMethod(fn, name, signature, docstring), once for each definition
Construct(name, signature, docstring) ==
    /\ op = NoCall
    /\ op' = Call("RPCMethod", <<fn, name, signature, docstring>>)
    /\ ret' = Return(RPCMethod(fn, name, signature, docstring))
    /\ UNCHANGED <<phase, restrict, rpcmethods, xmlfuncs, jsonfuncs, fn>>

InitMethod ==
    /\ phase = "new"
    /\ restrict = FALSE
    /\ rpcmethods = <<>>
    /\ xmlfuncs = <<>>
    /\ jsonfuncs = <<>>
    /\ fn \in RawFunctions
    /\ op = NoCall
    /\ ret = NoRet

NextMethod ==
    \/ \E f \in RawFunctions : Define(f)
    \/ \E n \in OptNames, s \in OptSignatures, p \in OptPermissions :
          Decorate(Kwargs(n, s, p))
    \/ \E n \in OptNames, s \in OptSignatures, d \in OptDocstrings :
          Construct(n, s, d)

SpecMethod == InitMethod /\ [][NextMethod]_vars

---------------------------------------------------------------------------
(* RPCMethod's accessors. *)

\* RPCMethod.get_returnvalue
get_returnvalue(m) ==
    IF Len(m.signature) > 0 THEN Some(m.signature[1]) ELSE None

\* RPCMethod.get_params
get_params(m) ==
    IF Len(m.signature) > 0
    THEN IF Len(m.signature) = Len(m.args) + 1
         THEN [i \in 1..Len(m.args) |->
                  [name |-> m.args[i], rpctype |-> m.signature[i + 1]]]
         ELSE [i \in 1..Len(m.args) |->
                  [name |-> m.args[i], rpctype |-> "object"]]
    ELSE <<>>

---------------------------------------------------------------------------
(* str comparison and list.sort over the names the model uses. *)

\* the names of the model in ascending order of their characters' code points
\* (upper case before lower case, '.' before the letters)
NameOrder ==
    <<"Zed", "add", "myns.mul", "ping", "system.describe",
      "system.listMethods", "system.methodHelp", "system.methodSignature">>

Rank(n) == CHOOSE i \in 1..Len(NameOrder) : NameOrder[i] = n

\* a < b on str
StrLess(a, b) == Rank(a) < Rank(b)

\* s (sorted) with x inserted after the elements that are not greater
RECURSIVE InsertSorted(_, _)
InsertSorted(s, x) ==
    IF s = <<>> THEN <<x>>
    ELSE IF StrLess(x, s[1]) THEN <<x>> \o s
    ELSE <<s[1]>> \o InsertSorted(Tail(s), x)

\* list.sort() on a list of str
RECURSIVE SortList(_)
SortList(s) ==
    IF s = <<>> THEN <<>>
    ELSE InsertSorted(SortList(SubSeq(s, 1, Len(s) - 1)), s[Len(s)])

---------------------------------------------------------------------------
(* RPCDispatcher.  A method of the dispatcher is an operator of the object *)
(* (self: its rpcmethods and the two function tables) and its arguments;   *)
(* it yields the object after the call and what the call returned or       *)
(* raised.                                                                 *)

Self(ms, xf, jf) ==
    [url |-> "/RPC2", rpcmethods |-> ms, xmlfuncs |-> xf, jsonfuncs |-> jf]
Result(self, out) == [self |-> self, out |-> out]

\* an exception: its class and, of a Fault, its code and message
Fault(code, message) ==
    [exc |-> "Fault", faultCode |-> code, faultString |-> message]
Exception(class) == [exc |-> class, faultCode |-> 0, faultString |-> <<>>]

\* [method.name for method in self.rpcmethods]
MethodNames(ms) == [i \in 1..Len(ms) |-> ms[i].name]

\* the first method of the list with the name, if there is one
FirstNamed(ms, method_name) ==
    LET found == {i \in 1..Len(ms) : ms[i].name = method_name} IN
    IF found = {} THEN None
    ELSE Some(ms[CHOOSE i \in found : \A j \in found : i <= j])

\* the methods of a list ordered by name
SortedByName(ms) ==
    LET names == SortList(MethodNames(ms)) IN
    [i \in 1..Len(ms) |-> Val(FirstNamed(ms, names[i]))]

\* system_listmethods sorting self.rpcmethods itself instead of a new list
system_listmethods_InPlace(self) ==
    Result([self EXCEPT !.rpcmethods = SortedByName(self.rpcmethods)],
           Return(SortList(MethodNames(self.rpcmethods))))

\* system_listmethods without the sort
system_listmethods_Unsorted(self) ==
    Result(self, Return(MethodNames(self.rpcmethods)))

\* RPCDispatcher.system_listmethods
system_listmethods(self) ==
    Result(self, Return(SortList(MethodNames(self.rpcmethods))))

\* system_methodhelp answering an empty string for a name it does not find
system_methodhelp_EmptyString(self, method_name) ==
    LET m == FirstNamed(self.rpcmethods, method_name) IN
    IF ~IsNone(m) THEN Result(self, Return(Val(m).help))
    ELSE Result(self, Return(""))

\* RPCDispatcher.system_methodhelp
system_methodhelp(self, method_name) ==
    LET m == FirstNamed(self.rpcmethods, method_name) IN
    IF ~IsNone(m) THEN Result(self, Return(Val(m).help))
    ELSE Result(self, Raise(Fault(APPLICATION_ERROR,
                               <<"No method found with name: ", method_name>>)))

\* RPCDispatcher.system_methodsignature
system_methodsignature(self, method_name) ==
    LET m == FirstNamed(self.rpcmethods, method_name) IN
    IF ~IsNone(m) THEN Result(self, Return(Val(m).signature))
    ELSE Result(self, Raise(Fault(APPLICATION_ERROR,
                               <<"No method found with name: ", method_name>>)))

\* RPCDispatcher.system_describe
system_describe(self) ==
    LET ms == self.rpcmethods IN
    Result(self, Return(
        [serviceType |-> "RPC4Django JSONRPC+XMLRPC",
         serviceURL |-> <<self.url>>,
         methods |-> [i \in 1..Len(ms) |->
                         [name |-> ms[i].name, summary |-> ms[i].help,
                          params |-> get_params(ms[i]),
                          return |-> get_returnvalue(ms[i])]]]))

\* RPCDispatcher.list_methods
list_methods(self) == Result(self, Return(self.rpcmethods))

\* register_function(function, name) of either protocol dispatcher
register_function(funcs, function, name) ==
    [n \in DOMAIN funcs \cup {name} |-> IF n = name THEN function ELSE funcs[n]]

\* register_method without the test of the name
register_method_NoCheck(self, method, name, signature, helpmsg) ==
    LET meth == RPCMethod(method, name, signature, helpmsg) IN
    Result(Self(Append(self.rpcmethods, meth),
                register_function(self.xmlfuncs, method, meth.name),
                register_function(self.jsonfuncs, method, meth.name)),
           Return(None))

\* register_method with the two register_function calls before the test
register_method_TablesFirst(self, method, name, signature, helpmsg) ==
    LET meth == RPCMethod(method, name, signature, helpmsg) IN
    Result(Self(IF meth.name \notin Range(MethodNames(self.rpcmethods))
                THEN Append(self.rpcmethods, meth) ELSE self.rpcmethods,
                register_function(self.xmlfuncs, method, meth.name),
                register_function(self.jsonfuncs, method, meth.name)),
           Return(None))

\* RPCDispatcher.register_method
register_method(self, method, name, signature, helpmsg) ==
    LET meth == RPCMethod(method, name, signature, helpmsg) IN
    IF meth.name \notin Range(system_listmethods(self).out.value)
    THEN Result(Self(Append(self.rpcmethods, meth),
                     register_function(self.xmlfuncs, method, meth.name),
                     register_function(self.jsonfuncs, method, meth.name)),
                Return(None))
    ELSE Result(self, Return(None))

---------------------------------------------------------------------------
(* RPCDispatcher.__init__ and the scan of the apps. *)

\* the four introspection methods, bound to the dispatcher and decorated
Bound_system_listmethods ==
    set_rpcmethod_info(
        Kwargs(Some("system.listMethods"), Some(<<"array">>), None),
        Function("system_listmethods", "system_listmethods", <<"self">>,
                 "Returns a list of supported methods"))

Bound_system_methodhelp ==
    set_rpcmethod_info(
        Kwargs(Some("system.methodHelp"), Some(<<"string", "string">>), None),
        Function("system_methodhelp", "system_methodhelp",
                 <<"self", "method_name">>,
                 "Returns documentation for a specified method"))

Bound_system_methodsignature ==
    set_rpcmethod_info(
        Kwargs(Some("system.methodSignature"), Some(<<"array", "string">>), None),
        Function("system_methodsignature", "system_methodsignature",
                 <<"self", "method_name">>,
                 "Returns the signature for a specified method"))

Bound_system_describe ==
    set_rpcmethod_info(
        Kwargs(Some("system.describe"), Some(<<"struct">>), None),
        Function("system_describe", "system_describe", <<"self">>,
                 "Returns a simple method description of the methods supported"))

\* in the order __init__ registers them
IntrospectionMethods ==
    <<Bound_system_listmethods, Bound_system_methodhelp,
      Bound_system_methodsignature, Bound_system_describe>>

\* register_method(method) for each method of a list, in order
RECURSIVE RegisterAll(_, _)
RegisterAll(self, methods) ==
    IF methods = <<>> THEN self
    ELSE RegisterAll(register_method(self, methods[1], None, None, None).self,
                     Tail(methods))

\* callable(method) and hasattr(method, 'is_rpcmethod') and
\* method.is_rpcmethod == True
IsDecorated(method) ==
    hasattr(method.is_rpcmethod) /\ Val(method.is_rpcmethod) = TRUE

\* RPCDispatcher.register_rpcmethods, given the attributes dir() lists of the
\* apps' modules, in the order of the scan
RECURSIVE register_rpcmethods(_, _)
register_rpcmethods(self, attrs) ==
    IF attrs = <<>> THEN self
    ELSE LET method == attrs[1] IN
         register_rpcmethods(
             IF IsDecorated(method)
             THEN register_method(self, method, method.external_name,
                                  None, None).self
             ELSE self,
             Tail(attrs))

\* __init__ scanning the apps before it registers the introspection methods
NewDispatcher_AppsFirst(restrict_introspection, attrs) ==
    LET scanned == register_rpcmethods(Self(<<>>, <<>>, <<>>), attrs) IN
    IF ~restrict_introspection
    THEN RegisterAll(scanned, IntrospectionMethods)
    ELSE scanned

\* RPCDispatcher.__init__
NewDispatcher(restrict_introspection, attrs) ==
    LET empty == Self(<<>>, <<>>, <<>>) IN
    register_rpcmethods(
        IF ~restrict_introspection
        THEN RegisterAll(empty, IntrospectionMethods)
        ELSE empty,
        attrs)

---------------------------------------------------------------------------
(* Request bodies.  A body is what the two decoders make of its text: XML  *)
(* (a methodCall, a methodResponse, a fault response, or a document that   *)
(* is no XML-RPC), JSON (an object or an array of objects), or neither.    *)
(* An entry is one request: its method (None: no 'method' member), its     *)
(* positional params and its id (None: a notification).                    *)

Entry(method, params, id) == [method |-> method, params |-> params, id |-> id]
Body(text, doc, items) == [text |-> text, doc |-> doc, items |-> items]

\* xmlrpclib.loads(raw_post_data): (params, method), or the exception raised
xmlrpclib_loads(body) ==
    IF body.text # "xml" THEN Raise(Exception("ExpatError"))
    ELSE IF body.doc = "methodCall"
    THEN Return([params |-> body.items[1].params, method |-> body.items[1].method])
    ELSE IF body.doc = "methodResponse"
    THEN Return([params |-> <<>>, method |-> None])
    ELSE IF body.doc = "fault" THEN Raise(Exception("Fault"))
    ELSE Raise(Exception("ResponseError"))

\* json.loads(raw_post_data): the decoded value, or the exception raised
json_loads(body) ==
    IF body.text # "json" THEN Raise(Exception("ValueError"))
    ELSE IF body.doc = "object"
    THEN Return([type |-> "dict", items |-> body.items])
    ELSE Return([type |-> "list", items |-> body.items])

\* get_method_name without the except clause of the JSON branch
get_method_name_NoExcept(self, raw_post_data, request_format) ==
    IF request_format = "xml"
    THEN LET r == xmlrpclib_loads(raw_post_data) IN
         IF r.kind = "return" THEN Result(self, Return(r.value.method))
         ELSE IF r.value.exc = "Fault" THEN Result(self, Return(None))
         ELSE Result(self, r)
    ELSE LET r == json_loads(raw_post_data) IN
         IF r.kind = "return"
         THEN IF r.value.type # "dict" \/ IsNone(r.value.items[1].method)
              THEN Result(self, Return(None))
              ELSE Result(self, Return(r.value.items[1].method))
         ELSE Result(self, r)

\* RPCDispatcher.get_method_name
get_method_name(self, raw_post_data, request_format) ==
    IF request_format = "xml"
    THEN LET r == xmlrpclib_loads(raw_post_data) IN
         IF r.kind = "return" THEN Result(self, Return(r.value.method))
         ELSE IF r.value.exc = "Fault" THEN Result(self, Return(None))
         ELSE Result(self, r)
    ELSE LET r == json_loads(raw_post_data) IN
         IF r.kind = "return"
         THEN IF r.value.type # "dict" \/ IsNone(r.value.items[1].method)
              THEN Result(self, Return(None))
              ELSE Result(self, Return(r.value.items[1].method))
         ELSE IF r.value.exc = "ValueError" THEN Result(self, Return(None))
         ELSE Result(self, r)

---------------------------------------------------------------------------
(* The two protocol dispatchers' dispatch. *)

\* the call of a registered function with positional params
Invoke(self, function, params) ==
    IF Len(params) # Len(ArgsWithoutSelf(function.args))
    THEN Result(self, Raise(Exception("TypeError")))
    ELSE IF function.body = "system_listmethods" THEN system_listmethods(self)
    ELSE IF function.body = "system_methodhelp"
    THEN system_methodhelp(self, params[1])
    ELSE IF function.body = "system_methodsignature"
    THEN system_methodsignature(self, params[1])
    ELSE IF function.body = "system_describe" THEN system_describe(self)
    ELSE Result(self, Return(<<function.body, params>>))

\* XMLRPCDispatcher.dispatch: a methodResponse with params or with a fault
XmlDispatch(self, body) ==
    LET r == xmlrpclib_loads(body) IN
    IF r.kind = "raise" \/ IsNone(r.value.method)
    THEN Result(self, Return([fault |-> Some(Fault(APPLICATION_ERROR, <<"decode">>)),
                              params |-> <<>>]))
    ELSE LET name == Val(r.value.method) IN
         IF name \notin DOMAIN self.xmlfuncs
         THEN Result(self, Return(
                  [fault |-> Some(Fault(APPLICATION_ERROR,
                                        <<"method not found: ", name>>)),
                   params |-> <<>>]))
         ELSE LET c == Invoke(self, self.xmlfuncs[name], r.value.params) IN
              IF c.out.kind = "return"
              THEN Result(c.self, Return([fault |-> None,
                                          params |-> <<c.out.value>>]))
              ELSE Result(c.self, Return([fault |-> Some(c.out.value),
                                          params |-> <<>>]))

\* one entry of a JSON request: the object after it and its response
JsonEntry(self, e) ==
    IF IsNone(e.method) \/ Val(e.method) \notin DOMAIN self.jsonfuncs
    THEN Result(self, [result |-> None, error |-> Some("MethodNotFound"),
                       id |-> e.id])
    ELSE LET c == Invoke(self, self.jsonfuncs[Val(e.method)], e.params) IN
         IF c.out.kind = "return"
         THEN Result(c.self, [result |-> Some(c.out.value), error |-> None,
                              id |-> e.id])
         ELSE IF c.out.value.exc = "TypeError"
         THEN Result(c.self, [result |-> None, error |-> Some("InvalidParams"),
                              id |-> e.id])
         ELSE Result(c.self, [result |-> None,
                              error |-> Some(<<"ApplicationError", c.out.value>>),
                              id |-> e.id])

\* the entries in order: the object after them and the responses of those
\* that are no notifications
RECURSIVE JsonEntries(_, _, _)
JsonEntries(self, items, responses) ==
    IF items = <<>> THEN Result(self, responses)
    ELSE LET c == JsonEntry(self, items[1]) IN
         JsonEntries(c.self, Tail(items),
                     IF IsNone(items[1].id) THEN responses
                     ELSE Append(responses, c.out))

\* JSONRPCDispatcher.dispatch: the response mirrors the shape of the request
JsonDispatch(self, body) ==
    LET r == json_loads(body) IN
    IF r.kind = "raise"
    THEN Result(self, Return([shape |-> "object",
                              responses |-> <<[result |-> None,
                                               error |-> Some("ParseError"),
                                               id |-> None]>>]))
    ELSE LET c == JsonEntries(self, r.value.items, <<>>) IN
         Result(c.self, Return([shape |-> IF r.value.type = "dict"
                                          THEN "object" ELSE "array",
                                responses |-> c.out]))

\* RPCDispatcher.xmldispatch
xmldispatch(self, raw_post_data) == XmlDispatch(self, raw_post_data)

\* RPCDispatcher.jsondispatch
jsondispatch(self, raw_post_data) == JsonDispatch(self, raw_post_data)

---------------------------------------------------------------------------
(* The inputs of the dispatcher specification. *)

\* two functions of the same name, and three decorated ones: one renamed
\* with a signature, one that takes the name of an introspection method,
\* one decorated without keywords
f_add == Function("b1", "add", <<"a", "b">>, "adds two numbers")
f_add2 == Function("b4", "add", <<"x">>, "another add")
d_mul ==
    set_rpcmethod_info(
        Kwargs(Some("myns.mul"), Some(<<"int", "int", "int">>), Some("add_group")),
        Function("b5", "mul", <<"a", "b">>, "multiplies"))
d_sys ==
    set_rpcmethod_info(Kwargs(Some("system.listMethods"), None, None),
                       Function("b6", "fake", <<>>, "not the built-in"))
d_ping ==
    set_rpcmethod_info(Kwargs(None, None, None),
                       Function("b2", "ping", <<"self">>, "answers"))

ModuleAttrs == {f_add, f_add2, d_mul, d_sys, d_ping}
RegNames == {None, Some("Zed")}
QueryNames == {"add", "myns.mul", "system.methodHelp", "nosuch"}

XmlBodies ==
    {Body("xml", "methodCall", <<Entry(Some("system.listMethods"), <<>>, None)>>),
     Body("xml", "methodResponse", <<>>),
     Body("xml", "fault", <<>>),
     Body("xml", "other", <<>>)}
JsonBodies ==
    {Body("json", "object", <<Entry(Some("system.methodHelp"), <<"add">>, Some("1"))>>),
     Body("json", "object", <<Entry(None, <<>>, Some("1"))>>),
     Body("json", "array", <<Entry(Some("nosuch"), <<>>, Some("1")),
                             Entry(Some("add"), <<"2">>, None)>>)}
Garbage == Body("garbage", "", <<>>)
Bodies == XmlBodies \cup JsonBodies \cup {Garbage}
Formats == {"xml", "json"}

\* what dir() lists of the scanned modules, in the order of the scan
AttrLists == ListsUpTo(ModuleAttrs, MaxApps)

---------------------------------------------------------------------------
(* The dispatcher specification. *)

NoFunction == Function("", "", <<>>, "")

Current == Self(rpcmethods, xmlfuncs, jsonfuncs)

\* the entries of rpcmethods that are not the built-in introspection methods
UserCount(ms) ==
    Cardinality({i \in 1..Len(ms) : ms[i].method \notin Range(IntrospectionMethods)})

\* a call of a method of the dispatcher: the object and the outcome it leaves
Do(call, r) ==
    /\ phase = "ready"
    /\ rpcmethods' = r.self.rpcmethods
    /\ xmlfuncs' = r.self.xmlfuncs
    /\ jsonfuncs' = r.self.jsonfuncs
    /\ op' = call
    /\ ret' = r.out
    /\ UNCHANGED <<phase, restrict, fn>>

\* RPCDispatcher(url, apps, restrict_introspection)
Construction(restrict_introspection, attrs) ==
    /\ phase = "new"
    /\ LET self == NewDispatcher(restrict_introspection, attrs) IN
          /\ UserCount(self.rpcmethods) <= MaxUser
          /\ rpcmethods' = self.rpcmethods
          /\ xmlfuncs' = self.xmlfuncs
          /\ jsonfuncs' = self.jsonfuncs
    /\ phase' = "ready"
    /\ restrict' = restrict_introspection
    /\ op' = Call("__init__", <<restrict_introspection, attrs>>)
    /\ ret' = Return(None)
    /\ UNCHANGED fn

\* register_method(method, name), signature and helpmsg left at their
\* default as in every call of the module (the descriptor specification
\* varies them); op keeps meth, the RPCMethod the call instantiates
RegisterMethod(method, name) ==
    LET r == register_method(Current, method, name, None, None) IN
    /\ UserCount(r.self.rpcmethods) <= MaxUser
    /\ Do(Call("register_method", <<RPCMethod(method, name, None, None)>>), r)

SystemListMethods == Do(Call("system_listmethods", <<>>), system_listmethods(Current))

SystemMethodHelp(n) ==
    Do(Call("system_methodhelp", <<n>>), system_methodhelp(Current, n))

SystemMethodSignature(n) ==
    Do(Call("system_methodsignature", <<n>>), system_methodsignature(Current, n))

SystemDescribe == Do(Call("system_describe", <<>>), system_describe(Current))

ListMethods == Do(Call("list_methods", <<>>), list_methods(Current))

GetMethodName(b, f) ==
    Do(Call("get_method_name", <<b, f>>), get_method_name(Current, b, f))

XmlDispatchCall(b) == Do(Call("xmldispatch", <<b>>), xmldispatch(Current, b))

JsonDispatchCall(b) == Do(Call("jsondispatch", <<b>>), jsondispatch(Current, b))

Init ==
    /\ phase = "new"
    /\ restrict = FALSE
    /\ rpcmethods = <<>>
    /\ xmlfuncs = <<>>
    /\ jsonfuncs = <<>>
    /\ fn = NoFunction
    /\ op = NoCall
    /\ ret = NoRet

Next ==
    \/ \E r \in BOOLEAN, attrs \in AttrLists : Construction(r, attrs)
    \/ \E m \in ModuleAttrs, n \in RegNames : RegisterMethod(m, n)
    \/ SystemListMethods
    \/ \E n \in QueryNames : SystemMethodHelp(n)
    \/ \E n \in QueryNames : SystemMethodSignature(n)
    \/ SystemDescribe
    \/ ListMethods
    \/ \E b \in Bodies, f \in Formats : GetMethodName(b, f)
    \/ \E b \in XmlBodies \cup {Garbage} : XmlDispatchCall(b)
    \/ \E b \in JsonBodies \cup {Garbage} : JsonDispatchCall(b)

Spec == Init /\ [][Next]_vars

---------------------------------------------------------------------------
(* Properties of the descriptor specification SpecMethod. *)

Constructed == op.call = "RPCMethod" /\ ret.kind = "return"

\* the callable, the name and the signature the constructor was given
GivenMethod == op.args[1]
GivenName == op.args[2]
GivenSignature == op.args[3]

\* the number of formal parameters that are not the receiver
ParamCount(method) ==
    Cardinality({i \in 1..Len(method.args) : method.args[i] # "self"})

\* C2: every RPCMethod has a signature one longer than its args, whatever
\* signature the callable carries and whatever signature was passed.
C2_SignatureLength ==
    Constructed => Len(ret.value.signature) = Len(ret.value.args) + 1

\* a descriptor built from a callable whose attached signature is not empty
\* and has the wrong length, with a passed signature of the wrong length too
C2_Witness ==
    /\ Constructed
    /\ hasattr(GivenMethod.signature)
    /\ Len(Val(GivenMethod.signature)) > 0
    /\ Len(Val(GivenMethod.signature)) # ParamCount(GivenMethod) + 1
    /\ ~IsNone(GivenSignature)
    /\ Len(Val(GivenSignature)) # ParamCount(GivenMethod) + 1
    /\ Len(ret.value.signature) = ParamCount(GivenMethod) + 1

\* C3: the name of a descriptor is the passed name when one is given, else
\* the name attached to the callable, else the callable's own name.
C3_PassedNameFirst ==
    Constructed =>
        ret.value.name =
            IF ~IsNone(GivenName) THEN Val(GivenName)
            ELSE IF hasattr(GivenMethod.external_name)
            THEN Val(GivenMethod.external_name)
            ELSE GivenMethod.func_name

\* C9: the signature is the attached one if it has the right length, else
\* the passed one if that has the right length, else 'object' for the
\* return value and for every parameter.
C9_SignatureChoice ==
    Constructed =>
        LET n == ParamCount(GivenMethod) + 1
            attached == GivenMethod.signature
            attachedFits == hasattr(attached) /\ Len(Val(attached)) = n
            passedFits == ~IsNone(GivenSignature) /\ Len(Val(GivenSignature)) = n
        IN /\ attachedFits => ret.value.signature = Val(attached)
           /\ ~attachedFits /\ passedFits =>
                  ret.value.signature = Val(GivenSignature)
           /\ ~attachedFits /\ ~passedFits =>
                  /\ Len(ret.value.signature) = n
                  /\ \A i \in 1..n : ret.value.signature[i] = "object"

\* both signatures have the right length and differ: the attached one is used
C9_Witness ==
    /\ Constructed
    /\ hasattr(GivenMethod.signature)
    /\ Len(Val(GivenMethod.signature)) = ParamCount(GivenMethod) + 1
    /\ ~IsNone(GivenSignature)
    /\ Len(Val(GivenSignature)) = ParamCount(GivenMethod) + 1
    /\ Val(GivenSignature) # Val(GivenMethod.signature)
    /\ ret.value.signature = Val(GivenMethod.signature)

---------------------------------------------------------------------------
(* Properties of the dispatcher specification Spec. *)

RegisteredNames == {rpcmethods[i].name : i \in 1..Len(rpcmethods)}

\* the descriptors registered under a name
Registered(n) == {rpcmethods[i] : i \in {j \in 1..Len(rpcmethods) : rpcmethods[j].name = n}}

BuiltinNames ==
    <<"system.listMethods", "system.methodHelp", "system.methodSignature",
      "system.describe">>

ReadCalls ==
    {"jsondispatch", "xmldispatch", "get_method_name", "list_methods",
     "system_listmethods", "system_methodhelp", "system_methodsignature",
     "system_describe"}

\* C1: a register_method call whose name is already registered changes
\* neither rpcmethods nor the two function tables and returns; one whose
\* name is new appends its descriptor; and no call of any kind changes the
\* descriptor or the functions a registered name leads to.
C1_FirstRegistrationWins ==
    [][/\ op'.call = "register_method" =>
            LET meth == op'.args[1] IN
            /\ ret'.kind = "return"
            /\ IF meth.name \in RegisteredNames
               THEN UNCHANGED <<rpcmethods, xmlfuncs, jsonfuncs>>
               ELSE rpcmethods' = Append(rpcmethods, meth)
       /\ \A n \in RegisteredNames :
            /\ FirstNamed(rpcmethods', n) = FirstNamed(rpcmethods, n)
            /\ n \in DOMAIN xmlfuncs' /\ xmlfuncs'[n] = xmlfuncs[n]
            /\ n \in DOMAIN jsonfuncs' /\ jsonfuncs'[n] = jsonfuncs[n]
      ]_vars

\* a register_method call was dropped: its name leads to an earlier
\* descriptor, of another callable
C1_Witness ==
    /\ op.call = "register_method"
    /\ op.args[1].name \in RegisteredNames
    /\ \A m \in Registered(op.args[1].name) : m.method # op.args[1].method
    /\ Len(rpcmethods) >= 2

\* C4 as claimed: get_method_name never raises.
C4_NeverRaises ==
    op.call = "get_method_name" => ret.kind = "return"

\* C4 as amended: get_method_name raises exactly when the format is xml and
\* the body is no XML or no XML-RPC message; for json it always returns,
\* the 'method' member of an object that has one and None otherwise; for
\* xml it returns the method name of a call and None for a response or a
\* fault response.
C4_RaisesOnlyOnUnparsedXml ==
    op.call = "get_method_name" =>
        LET body == op.args[1]
            format == op.args[2]
        IN /\ ret.kind = "raise" <=>
                  /\ format = "xml"
                  /\ body.text # "xml" \/ body.doc = "other"
           /\ ret.kind = "raise" =>
                  ret.value.exc \in {"ExpatError", "ResponseError"}
           /\ ret.kind = "return" /\ format = "json" =>
                  ret.value = IF body.text = "json" /\ body.doc = "object"
                              THEN body.items[1].method ELSE None
           /\ ret.kind = "return" /\ format = "xml" =>
                  ret.value = IF body.doc = "methodCall"
                              THEN body.items[1].method ELSE None

\* a body that is no XML, read as xml: the parser's exception comes out
C4_Witness ==
    /\ op.call = "get_method_name"
    /\ op.args[2] = "xml"
    /\ op.args[1].text = "garbage"
    /\ ret.kind = "raise"
    /\ ret.value.exc = "ExpatError"

\* C5: system.listMethods returns the names of the registered descriptors,
\* each as often as it is registered, in ascending order.
C5_ListMethodsSorted ==
    op.call = "system_listmethods" =>
        /\ ret.kind = "return"
        /\ Len(ret.value) = Len(rpcmethods)
        /\ \A n \in RegisteredNames \cup Range(ret.value) :
              Cardinality({i \in 1..Len(ret.value) : ret.value[i] = n})
                  = Cardinality({i \in 1..Len(rpcmethods) : rpcmethods[i].name = n})
        /\ \A i, j \in 1..Len(ret.value) :
              i < j => StrLess(ret.value[i], ret.value[j])

\* the list was asked of a registry whose order of registration is not
\* the ascending one, with methods that are not built in
C5_Witness ==
    /\ op.call = "system_listmethods"
    /\ ret.kind = "return"
    /\ UserCount(rpcmethods) >= 2
    /\ \E i, j \in 1..Len(rpcmethods) :
          i < j /\ StrLess(rpcmethods[j].name, rpcmethods[i].name)

\* C6: system.methodHelp and system.methodSignature return the help, or the
\* signature, of the descriptor registered under the name, and raise a
\* Fault with code -32500 and a message naming the method if there is none.
C6_HelpAndSignature ==
    op.call \in {"system_methodhelp", "system_methodsignature"} =>
        LET n == op.args[1] IN
        IF n \in RegisteredNames
        THEN /\ ret.kind = "return"
             /\ \A m \in Registered(n) :
                   ret.value = IF op.call = "system_methodhelp"
                               THEN m.help ELSE m.signature
        ELSE /\ ret.kind = "raise"
             /\ ret.value.exc = "Fault"
             /\ ret.value.faultCode = -32500
             /\ n \in Range(ret.value.faultString)

\* the help of a name that is not registered was asked of a registry that
\* holds methods
C6_Witness ==
    /\ op.call = "system_methodhelp"
    /\ op.args[1] \notin RegisteredNames
    /\ Len(rpcmethods) > 0
    /\ ret.kind = "raise"

\* C7: once the dispatcher is constructed no read-side call changes
\* rpcmethods, and whatever changes it is a register_method call.
C7_ReadOnly ==
    [][phase = "ready" =>
          /\ op'.call \in ReadCalls => rpcmethods' = rpcmethods
          /\ rpcmethods' # rpcmethods => op'.call = "register_method"
      ]_vars

\* an XML request called system.listMethods on a registry that is not in
\* ascending order and got the names
C7_Witness ==
    /\ op.call = "xmldispatch"
    /\ op.args[1].doc = "methodCall"
    /\ ret.kind = "return"
    /\ IsNone(ret.value.fault)
    /\ Len(ret.value.params[1]) = Len(rpcmethods)
    /\ \E i, j \in 1..Len(rpcmethods) :
          i < j /\ StrLess(rpcmethods[j].name, rpcmethods[i].name)

\* the decorated attributes of a scan whose name no earlier one has
RECURSIVE FirstOfEachName(_, _)
FirstOfEachName(attrs, seen) ==
    IF attrs = <<>> THEN <<>>
    ELSE IF /\ hasattr(attrs[1].is_rpcmethod)
            /\ Val(attrs[1].external_name) \notin seen
         THEN <<attrs[1]>> \o FirstOfEachName(Tail(attrs),
                                 seen \cup {Val(attrs[1].external_name)})
         ELSE FirstOfEachName(Tail(attrs), seen)

\* C8: after __init__ without restrict_introspection the first four entries
\* are the built-in introspection methods, under their names in both
\* tables, followed by the scanned candidates that do not take a name
\* already there; with it the registry holds the candidates alone, and no
\* built-in is ever registered.
C8_IntrospectionFirst ==
    /\ phase = "ready" /\ ~restrict =>
          /\ Len(rpcmethods) >= 4
          /\ \A i \in 1..4 :
                /\ rpcmethods[i].name = BuiltinNames[i]
                /\ rpcmethods[i].method = IntrospectionMethods[i]
                /\ xmlfuncs[BuiltinNames[i]] = IntrospectionMethods[i]
                /\ jsonfuncs[BuiltinNames[i]] = IntrospectionMethods[i]
    /\ phase = "ready" /\ restrict =>
          \A i \in 1..Len(rpcmethods) :
              rpcmethods[i].method \notin Range(IntrospectionMethods)
    /\ op.call = "__init__" =>
          LET attrs == op.args[2]
              first == IF restrict THEN <<>> ELSE IntrospectionMethods
              seen == IF restrict THEN {} ELSE Range(BuiltinNames)
          IN [i \in 1..Len(rpcmethods) |-> rpcmethods[i].method]
                 = first \o FirstOfEachName(attrs, seen)

\* a dispatcher constructed with introspection from a scan that found a
\* candidate named like a built-in
C8_Witness ==
    /\ op.call = "__init__"
    /\ ~restrict
    /\ \E i \in 1..Len(op.args[2]) :
          /\ hasattr(op.args[2][i].external_name)
          /\ Val(op.args[2][i].external_name) \in Range(BuiltinNames)
    /\ Len(rpcmethods) = 4

\* C10: the names of rpcmethods are pairwise distinct, they are the names
\* of the XML table and of the JSON table, and under each name the two
\* tables hold the callable of the descriptor.
C10_StoresInStep ==
    /\ \A i, j \in 1..Len(rpcmethods) :
          i # j => rpcmethods[i].name # rpcmethods[j].name
    /\ DOMAIN xmlfuncs = RegisteredNames
    /\ DOMAIN jsonfuncs = RegisteredNames
    /\ \A i \in 1..Len(rpcmethods) :
          /\ xmlfuncs[rpcmethods[i].name] = rpcmethods[i].method
          /\ jsonfuncs[rpcmethods[i].name] = rpcmethods[i].method

\* the registry holds built-in and other methods, and the last
\* register_method call came with a name already taken
C10_Witness ==
    /\ op.call = "register_method"
    /\ op.args[1].name \in RegisteredNames
    /\ op.args[1].method \notin {rpcmethods[i].method : i \in 1..Len(rpcmethods)}
    /\ ~restrict
    /\ UserCount(rpcmethods) >= 1

====
